---- MODULE Spec2Model ----
(***************************************************************************)
(* A model of the managed heap of ssw-gc (HeapBase, HeapBase::Block,       *)
(* TaggedPointer, TypeDescriptor).  The arena is raw memory: a function    *)
(* from 8-byte word addresses to machine words.  A block header is two     *)
(* words (mSize, then the tagged pointer mPtr); everything else is         *)
(* payload.  Assertions are compiled out (NDEBUG): in a build with         *)
(* assertions every allocation aborts in TaggedPointer::operator=, which   *)
(* asserts that the word being overwritten carries no tag.                 *)
(***************************************************************************)
EXTENDS Integers, Sequences, FiniteSets, TLC

\* ------------------------------------------------------------ constants
Align == 16
WordSize == 8
\* std::size_t and pointer arithmetic is modular; the 64-bit modulus is
\* scaled down to 2^20, far above every address and size of the model.
SizeTMod == 1048576
\* address of Heap::mStorage (aligned to Align, not null)
Storage == 64
\* TypeDescriptor layout: the offset list starts ListOffset bytes after the
\* descriptor (sizeof(TypeDescriptor) = 56 on LP64 with a 32-byte std::string)
ListOffset == 56
\* addresses the host allocator returned for the type descriptors
DescBase == 4096
DescStride == 128

\* ------------------------------------------------------------ bounds
MaxUnits == 6
MaxRoots == 2
MaxAllocs == 3
MaxGcs == 2
MaxWrites == 2
\* allocations of the runs that only allocate and deallocate
MaxChurn == 5
\* entries of mRoots in the runs that only register and remove roots
MaxRootEntries == 3
\* the most offsets a descriptor made by TypeDescriptor::make is given
MaxOffsets == 3

\* capacities HeapSize of Heap<HeapSize>: a multiple of Align and one that is not
AlignedCapacity == Align * MaxUnits
OddCapacity == Align * MaxUnits - WordSize

\* ------------------------------------------------------------ types
\* The client's managed types (main.cpp): Lecture has no managed pointer,
\* StudentList has one, StudentNode has two.
Types == {"Lecture", "StudentList", "StudentNode"}

TypeSize(t) ==
    CASE t = "Lecture" -> 24
      [] t = "StudentList" -> 8
      [] t = "StudentNode" -> 16

TypeOffsets(t) ==
    CASE t = "Lecture" -> << >>
      [] t = "StudentList" -> <<0>>
      [] t = "StudentNode" -> <<0, 8>>

TypeIndex(t) ==
    CASE t = "Lecture" -> 0
      [] t = "StudentList" -> 1
      [] t = "StudentNode" -> 2

\* address of the TypeDescriptor object of type t
DescAddr(t) == DescBase + DescStride * TypeIndex(t)

\* TypeDescriptor::begin and TypeDescriptor::end as addresses; end of the
\* descriptor at d with k offsets, and of the descriptor of type t
DescBegin(d) == d + ListOffset
DescEndAt(d, k) == DescBegin(d) + WordSize * k
DescEnd(t) == DescEndAt(DescAddr(t), Len(TypeOffsets(t)))

\* a constructor that takes the sentinel from begin() instead of end()
TypeDescriptorFromBegin(base, offsets) ==
    [a \in {DescBegin(base) + WordSize * i : i \in 0..Len(offsets)} |->
        IF a < DescEndAt(base, Len(offsets))
        THEN offsets[((a - DescBegin(base)) \div WordSize) + 1]
        ELSE base - DescBegin(base)]

\* TypeDescriptor::TypeDescriptor: the ptrdiff_t cells of the descriptor at
\* address base.  std::copy puts the offsets at begin(), then the cell at
\* end() gets the sentinel, the byte address of the descriptor minus the byte
\* address of end().
TypeDescriptor(base, offsets) ==
    [a \in {DescBegin(base) + WordSize * i : i \in 0..Len(offsets)} |->
        IF a < DescEndAt(base, Len(offsets))
        THEN offsets[((a - DescBegin(base)) \div WordSize) + 1]
        ELSE base - DescEndAt(base, Len(offsets))]

\* The ptrdiff_t cells of the descriptors of the client's types, constructed
\* during static initialisation: the offsets, then the sentinel.
IsDescCell(a) ==
    \E t \in Types : \E i \in 0..Len(TypeOffsets(t)) :
        a = DescBegin(DescAddr(t)) + WordSize * i

DescCell(a) ==
    LET t == CHOOSE u \in Types : \E i \in 0..Len(TypeOffsets(u)) :
                 a = DescBegin(DescAddr(u)) + WordSize * i
    IN  TypeDescriptor(DescAddr(t), TypeOffsets(t))[a]

IsDescriptor(d) == \E t \in Types : d = DescAddr(t)
TypeAt(d) == CHOOSE t \in Types : d = DescAddr(t)

\* ------------------------------------------------------------ TaggedPointer
sMaskMark == 1
sMaskFree == 2
sMaskAll == 3

Tags(w) == w % 4
Get(w) == w - (w % 4)
MarkBit(w) == w % 2 = 1
FreeBit(w) == (w \div 2) % 2 = 1
UsedBit(w) == ~FreeBit(w)

\* bitwise or of two tag values 0..3
TagOr(a, b) ==
    (IF a % 2 = 1 \/ b % 2 = 1 THEN 1 ELSE 0)
    + (IF (a \div 2) % 2 = 1 \/ (b \div 2) % 2 = 1 THEN 2 ELSE 0)

\* the assertion at the head of operator=(T *ptr): assert(!(mPointer & sMaskAll)),
\* evaluated on the word w that is about to be overwritten
AssignAssert(w, p) == Tags(w) = 0

\* operator=(T *ptr): mPointer = ptr | (mPointer & sMaskAll)
Assign(w, p) == Get(p) + TagOr(Tags(p), Tags(w))
SetMark(w, b) == Get(w) + (IF FreeBit(w) THEN sMaskFree ELSE 0) + (IF b THEN sMaskMark ELSE 0)
SetFree(w, b) == Get(w) + (IF b THEN sMaskFree ELSE 0) + (IF MarkBit(w) THEN sMaskMark ELSE 0)
\* explicit TaggedPointer(T *ptr, bool mark = false)
Construct(p) == SetMark(p, FALSE)

\* ------------------------------------------------------------ arithmetic
Wrap(x) == x % SizeTMod

\* HeapBase::align: (size + Align - 1) & ~(Align - 1)
align(size) == (Wrap(size + Align - 1) \div Align) * Align

\* ------------------------------------------------------------ arena
StorageSize(hs) == hs + Align
StorageWords(hs) == {Storage + WordSize * i : i \in 0..((StorageSize(hs) \div WordSize) - 1)}
mHeapStart == Storage
mHeapEndOf(hs) == Storage + (StorageSize(hs) - (StorageSize(hs) % Align))


\* ------------------------------------------------------------ state
VARIABLES
    hs,         \* the template parameter HeapSize of Heap<HeapSize>
    mem,        \* mStorage: word address -> word
    mFreeList,  \* head of the free list (address of a Block, 0 = nullptr)
    mRoots,     \* std::vector<byte*> of registered roots
    pc,         \* "idle" between public operations, "mark" / "sweep" inside gc()
    rootIdx,    \* position of the range-for over mRoots
    cur, prev,  \* the locals of HeapBase::mark
    status,     \* "ok", "ub" (access outside every object), "hang" (a loop that never ends)
    objs,       \* client's view: payload address -> type of the objects it owns
    gcLive,     \* payloads reachable from the roots when the running gc() was called
    gcDead,     \* payloads the client owned then that were not reachable
    preMem,     \* mStorage when the running gc() was called
    destroyLog, \* payloads TypeDescriptor::destroy was called on by the last sweep, in order
    lastAlloc,  \* what the last allocate() did
    trav,       \* the iterations of HeapBase::mark during the last gc(), in order
    lastRemove, \* the last removeRoot(): its argument and mRoots before it
    desc,       \* the TypeDescriptor the last TypeDescriptor::make created
    nAllocs, nGcs, nWrites

vars == <<hs, mem, mFreeList, mRoots, pc, rootIdx, cur, prev, status,
          objs, gcLive, gcDead, preMem, destroyLog, lastAlloc, trav,
          lastRemove, desc, nAllocs, nGcs, nWrites>>

mHeapEnd == mHeapEndOf(hs)

InStorage(a) == a \in StorageWords(hs)
\* a Block object (mSize, mPtr) lies inside mStorage
BlockInStorage(b) == InStorage(b) /\ InStorage(b + WordSize)

\* Block accessors on a memory m
BSize(m, b) == m[b]
BPtr(m, b) == m[b + WordSize]
\* HeapBase::block and Block::data
block(p) == Wrap(p + SizeTMod - Align)
data(b) == Wrap(b + Align)
\* Block::following
following(m, b) == Wrap(data(b) + align(BSize(m, b)))

NoAlloc == [called |-> FALSE, type |-> "Lecture", root |-> FALSE, result |-> 0, chosen |-> 0,
            b |-> 0, split |-> FALSE, newBlock |-> 0, prevBlk |-> 0]

\* no descriptor has been made besides those of the client's types
NoDesc == [made |-> FALSE, base |-> 0, offsets |-> << >>, cells |-> << >>]

\* ------------------------------------------------------------ construction
\* HeapBase::HeapBase on zero-initialised static storage: one free block of
\* usable size (size - Align) = HeapSize at the start of the storage.
InitMem(h) ==
    [a \in StorageWords(h) |->
        IF a = Storage THEN Wrap(StorageSize(h) - Align)
        ELSE IF a = Storage + WordSize THEN SetFree(Construct(0), TRUE)
        ELSE 0]

\* the state after Heap<h>::Heap()
Constructed(h) ==
    /\ hs = h
    /\ mem = InitMem(h)
    /\ mFreeList = Storage
    /\ mRoots = << >>
    /\ pc = "idle"
    /\ rootIdx = 0
    /\ cur = 0
    /\ prev = 0
    /\ status = "ok"
    /\ objs = << >>
    /\ gcLive = {}
    /\ gcDead = {}
    /\ preMem = << >>
    /\ destroyLog = << >>
    /\ lastAlloc = NoAlloc
    /\ trav = << >>
    /\ lastRemove = [p |-> 0, before |-> << >>]
    /\ desc = NoDesc
    /\ nAllocs = 0
    /\ nGcs = 0
    /\ nWrites = 0

\* a heap whose capacity is a multiple of Align, as the one of main.cpp
Init == Constructed(AlignedCapacity)

\* a heap whose capacity is not a multiple of Align
InitOddCapacity == Constructed(OddCapacity)

\* the records of the last gc() are dropped by the next public operation
ForgetGc ==
    gcLive' = {} /\ gcDead' = {} /\ preMem' = << >> /\ destroyLog' = << >> /\ trav' = << >>

\* ------------------------------------------------------------ allocation
\* The first-fit loop of tryAllocate: while(cur && cur->size() < type.size()).
\* fuel counts the blocks the loop may still visit; the memory does not change
\* during the loop, so running out of fuel means the list is cyclic.
RECURSIVE FirstFit(_, _, _, _, _)
FirstFit(m, p, c, need, fuel) ==
    IF c = 0 THEN [st |-> "ok", prev |-> p, cur |-> 0]
    ELSE IF ~BlockInStorage(c) THEN [st |-> "ub", prev |-> p, cur |-> c]
    ELSE IF BSize(m, c) >= need THEN [st |-> "ok", prev |-> p, cur |-> c]
    ELSE IF fuel = 0 THEN [st |-> "hang", prev |-> p, cur |-> c]
    ELSE FirstFit(m, c, Get(BPtr(m, c)), need, fuel - 1)

\* Block::split: restSize is computed in std::size_t
RestSize(m, b, newSize) == Wrap(align(BSize(m, b)) + 2 * SizeTMod - align(newSize) - Align)
SplitTaken(m, b, newSize) == RestSize(m, b, newSize) >= Align
SplitBlock(b, newSize) == Wrap(b + Align + align(newSize))

\* the memory after split (the new block must lie inside the storage)
Split(m, b, newSize) ==
    IF SplitTaken(m, b, newSize)
    THEN LET nb == SplitBlock(b, newSize)
         IN  [m EXCEPT ![nb] = RestSize(m, b, newSize),
                       ![nb + WordSize] = SetFree(Construct(Get(BPtr(m, b))), TRUE),
                       ![b + WordSize] = Assign(BPtr(m, b), nb)]
    ELSE m

\* a next(Block*) that forgets to mark the block as free
SetNextStillUsed(m, b, n) == [m EXCEPT ![b + WordSize] = Assign(@, n)]

\* Block::next(Block*) and Block::type(const TypeDescriptor&)
SetNext(m, b, n) == [m EXCEPT ![b + WordSize] = SetFree(Assign(@, n), TRUE)]
SetType(m, b, t) == [m EXCEPT ![b + WordSize] = SetFree(Assign(@, DescAddr(t)), FALSE)]

\* HeapBase::tryAllocate
tryAllocate(m, fl, t) ==
    LET f == FirstFit(m, 0, fl, TypeSize(t), Cardinality(StorageWords(hs)))
        c == f.cur
        info == [called |-> TRUE, type |-> t, root |-> FALSE, result |-> 0, chosen |-> c,
                 b |-> 0, split |-> FALSE, newBlock |-> 0, prevBlk |-> f.prev]
    IN  IF f.st # "ok" THEN [st |-> f.st, mem |-> m, freeList |-> fl, info |-> info]
        ELSE IF c = 0 THEN [st |-> "ok", mem |-> m, freeList |-> fl, info |-> info]
        ELSE LET taken == SplitTaken(m, c, TypeSize(t))
                 nb == SplitBlock(c, TypeSize(t))
                 info2 == [info EXCEPT !.b = BSize(m, c), !.split = taken,
                                       !.newBlock = IF taken THEN nb ELSE 0,
                                       !.result = data(c)]
             IN  IF taken /\ ~BlockInStorage(nb)
                 THEN [st |-> "ub", mem |-> m, freeList |-> fl, info |-> info2]
                 ELSE LET m1 == Split(m, c, TypeSize(t))
                          nxt == Get(BPtr(m1, c))
                          m2 == IF f.prev # 0 THEN SetNext(m1, f.prev, nxt) ELSE m1
                          fl2 == IF f.prev # 0 THEN fl ELSE nxt
                          m3 == SetType(m2, c, t)
                      IN  [st |-> "ok", mem |-> m3, freeList |-> fl2, info |-> info2]

\* HeapBase::allocate: the second tryAllocate runs after mergeBlocks, which
\* is empty, on the state the first one left unchanged.
allocate(m, fl, t) ==
    IF fl = 0 THEN [st |-> "ok", mem |-> m, freeList |-> fl,
                    info |-> [NoAlloc EXCEPT !.called = TRUE, !.type = t]]
    ELSE LET r1 == tryAllocate(m, fl, t)
         IN  IF r1.st = "ok" /\ r1.info.result = 0 THEN tryAllocate(r1.mem, r1.freeList, t)
             ELSE r1

\* addresses of the managed-pointer fields of an object of type t at payload p
FieldAddrs(p, t) == {Wrap(p + TypeOffsets(t)[i]) : i \in 1..Len(TypeOffsets(t))}

\* the client's constructor: every managed pointer starts as nullptr
Construction(m, p, t) == [a \in DOMAIN m |-> IF a \in FieldAddrs(p, t) THEN 0 ELSE m[a]]

\* a registerRoot that puts the new root in front
registerRootFront(roots, p) == <<p>> \o roots

\* HeapBase::registerRoot
registerRoot(roots, p) == Append(roots, p)

\* the end of HeapBase::allocate: if(result && isRoot) registerRoot(result)
RootsAfterAllocate(roots, p, isRoot) ==
    IF p # 0 /\ isRoot THEN registerRoot(roots, p) ELSE roots

\* new(isRoot) T(): HeapObject::operator new, then T's constructor; max
\* bounds the number of allocations of a run
AllocateUpTo(t, isRoot, max) ==
    /\ pc = "idle" /\ status = "ok"
    /\ nAllocs < max
    /\ isRoot => Len(mRoots) < MaxRoots
    /\ nAllocs' = nAllocs + 1
    /\ LET r == allocate(mem, mFreeList, t)
           p == r.info.result
       IN  /\ lastAlloc' = [r.info EXCEPT !.root = isRoot]
           /\ IF r.st # "ok"
              THEN /\ status' = r.st
                   /\ UNCHANGED <<mem, mFreeList, mRoots, objs>>
              ELSE IF p = 0
              THEN /\ mRoots' = RootsAfterAllocate(mRoots, p, isRoot)
                   /\ UNCHANGED <<mem, mFreeList, objs, status>>
              ELSE IF ~(FieldAddrs(p, t) \subseteq StorageWords(hs))
              THEN /\ status' = "ub"
                   /\ UNCHANGED <<mem, mFreeList, mRoots, objs>>
              ELSE /\ mem' = Construction(r.mem, p, t)
                   /\ mFreeList' = r.freeList
                   /\ mRoots' = RootsAfterAllocate(mRoots, p, isRoot)
                   /\ objs' = [q \in (DOMAIN objs) \cup {p} |-> IF q = p THEN t ELSE objs[q]]
                   /\ UNCHANGED status
    /\ ForgetGc
    /\ UNCHANGED <<hs, desc, lastRemove, pc, rootIdx, cur, prev, nGcs, nWrites>>

Allocate(t, isRoot) == AllocateUpTo(t, isRoot, MaxAllocs)

\* HeapBase::deallocate (operator delete of a managed object).  The client
\* deletes only what nothing refers to any more: not a root, not the target of
\* a managed pointer of another object.
Referenced(m, p) ==
    \/ \E i \in 1..Len(mRoots) : mRoots[i] = p
    \/ \E q \in DOMAIN objs : \E a \in FieldAddrs(q, objs[q]) : q # p /\ m[a] = p

Deallocate(p) ==
    /\ pc = "idle" /\ status = "ok"
    /\ p \in DOMAIN objs
    /\ ~Referenced(mem, p)
    /\ mem' = SetNext(mem, block(p), mFreeList)
    /\ mFreeList' = block(p)
    /\ objs' = [q \in (DOMAIN objs) \ {p} |-> objs[q]]
    /\ lastAlloc' = NoAlloc
    /\ ForgetGc
    /\ UNCHANGED <<hs, desc, lastRemove, mRoots, pc, rootIdx, cur, prev, status, nAllocs, nGcs, nWrites>>

\* max bounds the length of mRoots
RegisterRootUpTo(p, max) ==
    /\ pc = "idle" /\ status = "ok"
    /\ p \in DOMAIN objs
    /\ Len(mRoots) < max
    /\ mRoots' = registerRoot(mRoots, p)
    /\ lastAlloc' = NoAlloc
    /\ ForgetGc
    /\ UNCHANGED <<hs, desc, lastRemove, mem, mFreeList, pc, rootIdx, cur, prev, status, objs,
                   nAllocs, nGcs, nWrites>>

RegisterRoot(p) == RegisterRootUpTo(p, MaxRoots)

\* HeapBase::removeRoot: erase the first entry equal to p, if there is one
RECURSIVE removeRoot(_, _)
removeRoot(roots, p) ==
    IF roots = << >> THEN << >>
    ELSE IF Head(roots) = p THEN Tail(roots)
    ELSE <<Head(roots)>> \o removeRoot(Tail(roots), p)

RemoveRoot(p) ==
    /\ pc = "idle" /\ status = "ok"
    /\ p \in DOMAIN objs
    /\ mRoots' = removeRoot(mRoots, p)
    /\ lastRemove' = [p |-> p, before |-> mRoots]
    /\ lastAlloc' = NoAlloc
    /\ ForgetGc
    /\ UNCHANGED <<hs, desc, mem, mFreeList, pc, rootIdx, cur, prev, status, objs,
                   nAllocs, nGcs, nWrites>>

\* the client stores a managed pointer (or nullptr) into a field of an object it owns
WriteField(p, a, q) ==
    /\ pc = "idle" /\ status = "ok"
    /\ p \in DOMAIN objs
    /\ a \in FieldAddrs(p, objs[p])
    /\ q \in (DOMAIN objs) \cup {0}
    /\ mem[a] # q
    /\ nWrites < MaxWrites
    /\ nWrites' = nWrites + 1
    /\ mem' = [mem EXCEPT ![a] = q]
    /\ lastAlloc' = NoAlloc
    /\ ForgetGc
    /\ UNCHANGED <<hs, desc, lastRemove, mFreeList, mRoots, pc, rootIdx, cur, prev, status, objs,
                   nAllocs, nGcs>>

\* ------------------------------------------------------------ reachability
\* The objects reachable from the roots through the managed-pointer fields
\* named by the offsets of their types (what the collector is meant to keep).
RootSet == {mRoots[i] : i \in 1..Len(mRoots)}

Succ(m, p) == {m[a] : a \in FieldAddrs(p, objs[p])} \cap DOMAIN objs

RECURSIVE Closure(_, _)
Closure(m, S) ==
    LET T == S \cup UNION {Succ(m, p) : p \in S}
    IN  IF T = S THEN S ELSE Closure(m, T)

Reachable(m) == Closure(m, RootSet \cap DOMAIN objs)

\* ------------------------------------------------------------ marking
\* HeapBase::gc: the range-for over mRoots calls mark(root) for each root.
EnterMark(i) ==
    IF i <= Len(mRoots)
    THEN /\ pc' = "mark" /\ rootIdx' = i /\ cur' = mRoots[i] /\ prev' = 0
    ELSE /\ pc' = "sweep" /\ rootIdx' = 0 /\ cur' = 0 /\ prev' = 0

Gc ==
    /\ pc = "idle" /\ status = "ok"
    /\ nGcs < MaxGcs
    /\ nGcs' = nGcs + 1
    /\ gcLive' = Reachable(mem)
    /\ gcDead' = (DOMAIN objs) \ Reachable(mem)
    /\ preMem' = mem
    /\ destroyLog' = << >>
    /\ trav' = << >>
    /\ lastAlloc' = NoAlloc
    /\ EnterMark(1)
    /\ UNCHANGED <<hs, desc, lastRemove, mem, mFreeList, mRoots, status, objs, nAllocs, nWrites>>

\* a marker that forgets the un-reversal
UnreverseLost(m, fa, child) == m

\* the un-reversal at the end of Retreat: the field of the parent that held
\* the reversed link gets the address of the child back
Unreverse(m, fa, child) == [m EXCEPT ![fa] = child]

\* a marker that leaves the field as it is when it advances
ReverseLost(m, fa, p) == m

\* the reversal in Advance: the field gets the address of the parent's parent
Reverse(m, fa, p) == [m EXCEPT ![fa] = p]

\* a Retreat that leaves the header cursor on the sentinel
RestoreLost(w, cell, offset) == w

\* the first statement of Retreat: the header gets the address of the
\* TypeDescriptor back, the byte address of the cursor plus the sentinel
Restore(w, cell, offset) == Assign(w, Wrap(cell + SizeTMod + offset))

\* One iteration of the while(true) loop of HeapBase::mark.  The result is
\* the memory and the locals after the iteration, ret = TRUE when mark returns.
MarkIteration(m, c, p) ==
    LET blk == block(c)
        bad == [st |-> "ub", mem |-> m, cur |-> c, prev |-> p, ret |-> FALSE,
                ev |-> <<"none", 0>>]
    IN  IF ~BlockInStorage(blk) THEN bad
        ELSE
        LET w0 == BPtr(m, blk)
            w1 == IF ~MarkBit(w0)
                  THEN SetMark(Assign(w0, DescBegin(Get(w0))), TRUE)
                  ELSE Assign(w0, Get(w0) + WordSize)
            m1 == [m EXCEPT ![blk + WordSize] = w1]
            cell == Get(w1)
        IN  IF ~IsDescCell(cell) THEN bad
            ELSE
            LET offset == DescCell(cell)
            IN  IF offset >= 0
                THEN \* Advance
                     LET fa == Wrap(c + offset)
                     IN  IF ~InStorage(fa) THEN bad
                         ELSE LET field == m1[fa]
                              IN  IF field = 0
                                  THEN [st |-> "ok", mem |-> m1, cur |-> c, prev |-> p, ret |-> FALSE,
                                        ev |-> <<"null", fa>>]
                                  ELSE IF ~BlockInStorage(block(field)) THEN bad
                                  ELSE IF MarkBit(BPtr(m1, block(field)))
                                  THEN [st |-> "ok", mem |-> m1, cur |-> c, prev |-> p, ret |-> FALSE,
                                        ev |-> <<"marked", fa>>]
                                  ELSE [st |-> "ok", mem |-> Reverse(m1, fa, p),
                                        cur |-> field, prev |-> c, ret |-> FALSE,
                                        ev |-> <<"advance", fa>>]
                ELSE \* Retreat
                     LET w2 == Restore(w1, cell, offset)
                         m2 == [m1 EXCEPT ![blk + WordSize] = w2]
                     IN  IF p = 0
                         THEN [st |-> "ok", mem |-> m2, cur |-> c, prev |-> p, ret |-> TRUE,
                               ev |-> <<"return", c>>]
                         ELSE IF ~BlockInStorage(block(p)) THEN bad
                         ELSE LET pcell == Get(BPtr(m2, block(p)))
                              IN  IF ~IsDescCell(pcell) THEN bad
                                  ELSE LET fa == Wrap(p + SizeTMod + DescCell(pcell))
                                       IN  IF ~InStorage(fa) THEN bad
                                           ELSE [st |-> "ok", mem |-> Unreverse(m2, fa, c),
                                                 cur |-> p, prev |-> m2[fa], ret |-> FALSE,
                                                 ev |-> <<"retreat", fa>>]

MarkStep ==
    /\ pc = "mark" /\ status = "ok"
    /\ LET r == MarkIteration(mem, cur, prev)
       IN  IF r.st # "ok"
           THEN /\ status' = r.st
                /\ UNCHANGED <<mem, pc, rootIdx, cur, prev, trav>>
           ELSE /\ mem' = r.mem
                /\ trav' = Append(trav, r.ev)
                /\ UNCHANGED status
                /\ IF r.ret THEN EnterMark(rootIdx + 1)
                   ELSE /\ cur' = r.cur /\ prev' = r.prev
                        /\ UNCHANGED <<pc, rootIdx>>
    /\ UNCHANGED <<hs, desc, lastRemove, mFreeList, mRoots, objs, gcLive, gcDead, preMem, destroyLog,
                   lastAlloc, nAllocs, nGcs, nWrites>>

\* ------------------------------------------------------------ sweep
\* The do-while of rebuildFreeList that extends a run of unmarked blocks:
\* destroys the used ones and stops at the heap end or at a marked block.
\* The memory does not change in the loop, so running out of fuel means that
\* following() stopped advancing.
RECURSIVE ExtendRun(_, _, _, _)
ExtendRun(m, free, log, fuel) ==
    IF fuel = 0 THEN [st |-> "hang", free |-> free, log |-> log]
    ELSE IF UsedBit(BPtr(m, free)) /\ ~IsDescriptor(Get(BPtr(m, free)))
    THEN [st |-> "ub", free |-> free, log |-> log]
    ELSE LET log2 == IF UsedBit(BPtr(m, free)) THEN Append(log, data(free)) ELSE log
             nxt == following(m, free)
         IN  IF nxt >= mHeapEnd THEN [st |-> "ok", free |-> nxt, log |-> log2]
             ELSE IF ~BlockInStorage(nxt) THEN [st |-> "ub", free |-> nxt, log |-> log2]
             ELSE IF MarkBit(BPtr(m, nxt)) THEN [st |-> "ok", free |-> nxt, log |-> log2]
             ELSE ExtendRun(m, nxt, log2, fuel - 1)

\* Block::next(Block*, std::size_t)
SetNextSize(m, b, n, size) == [SetNext(m, b, n) EXCEPT ![b] = size]

\* the usable size rebuildFreeList gives the free block that replaces a run
RunSize(blk, free) == Wrap(free + 2 * SizeTMod - blk - Align)

\* HeapBase::rebuildFreeList from block blk on, with the list built so far
RECURSIVE rebuildFreeList(_, _, _, _, _)
rebuildFreeList(m, blk, freeList, log, fuel) ==
    IF blk >= mHeapEnd THEN [st |-> "ok", mem |-> m, freeList |-> freeList, log |-> log]
    ELSE IF ~BlockInStorage(blk) THEN [st |-> "ub", mem |-> m, freeList |-> freeList, log |-> log]
    ELSE IF fuel = 0 THEN [st |-> "hang", mem |-> m, freeList |-> freeList, log |-> log]
    ELSE IF MarkBit(BPtr(m, blk))
    THEN rebuildFreeList([m EXCEPT ![blk + WordSize] = SetMark(@, FALSE)],
                         following(m, blk), freeList, log, fuel - 1)
    ELSE LET run == ExtendRun(m, blk, log, fuel)
         IN  IF run.st # "ok"
             THEN [st |-> run.st, mem |-> m, freeList |-> freeList, log |-> run.log]
             ELSE rebuildFreeList(SetNextSize(m, blk, freeList, RunSize(blk, run.free)),
                                  run.free, blk, run.log, fuel - 1)

\* the second half of gc(); afterwards the client owns what was reachable
Sweep ==
    /\ pc = "sweep" /\ status = "ok"
    /\ LET r == rebuildFreeList(mem, mHeapStart, 0, << >>, Cardinality(StorageWords(hs)))
       IN  IF r.st # "ok"
           THEN /\ status' = r.st
                /\ UNCHANGED <<mem, mFreeList, destroyLog, pc, objs>>
           ELSE /\ mem' = r.mem
                /\ mFreeList' = r.freeList
                /\ destroyLog' = r.log
                /\ pc' = "idle"
                /\ objs' = [q \in (DOMAIN objs) \cap gcLive |-> objs[q]]
                /\ UNCHANGED status
    /\ UNCHANGED <<hs, desc, lastRemove, mRoots, rootIdx, cur, prev, gcLive, gcDead, preMem, lastAlloc,
                   trav, nAllocs, nGcs, nWrites>>

\* ------------------------------------------------------------ statistics
\* The walk of collectHeapStats(false): for(blk = mHeapStart; blk < mHeapEnd;
\* blk = blk->following()).  acc is the HeapStats record so far; blocks and
\* stop record the blocks visited and where the walk ended.
NoStats == [st |-> "ok", heapSize |-> 0, usedSize |-> 0, freeSize |-> 0,
            numFreeBlocks |-> 0, freeBlockSize |-> 0, numObjects |-> 0,
            objectSize |-> 0, blocks |-> << >>, stop |-> 0]

RECURSIVE StatsWalk(_, _, _, _)
StatsWalk(m, blk, acc, fuel) ==
    IF blk >= mHeapEnd THEN [acc EXCEPT !.stop = blk]
    ELSE IF ~BlockInStorage(blk) THEN [acc EXCEPT !.st = "ub", !.stop = blk]
    ELSE IF fuel = 0 THEN [acc EXCEPT !.st = "hang", !.stop = blk]
    ELSE LET w == BPtr(m, blk)
             seen == [acc EXCEPT !.blocks = Append(@, blk)]
         IN  IF FreeBit(w)
             THEN StatsWalk(m, following(m, blk),
                      [seen EXCEPT !.numFreeBlocks = @ + 1,
                                   !.freeBlockSize = Wrap(@ + BSize(m, blk)),
                                   !.freeSize = Wrap(@ + Align + align(BSize(m, blk)))],
                      fuel - 1)
             ELSE IF ~IsDescriptor(Get(w)) THEN [seen EXCEPT !.st = "ub", !.stop = blk]
             ELSE StatsWalk(m, following(m, blk),
                      [seen EXCEPT !.numObjects = @ + 1,
                                   !.objectSize = Wrap(@ + TypeSize(TypeAt(Get(w)))),
                                   !.usedSize = Wrap(@ + Align + align(BSize(m, blk)))],
                      fuel - 1)

\* HeapBase::collectHeapStats(false)
collectHeapStats(m) ==
    StatsWalk(m, mHeapStart, [NoStats EXCEPT !.heapSize = mHeapEnd - mHeapStart],
              Cardinality(StorageWords(hs)))

\* the element of a set of one element (the set is evaluated once, where a
\* LET would be evaluated at every use)
Only(S) == CHOOSE x \in S : TRUE

\* HeapBase::mark(root) run to its return, for the callers that mark outside
\* gc(); fuel bounds the iterations (every iteration moves a cursor, so
\* running out of fuel means the loop does not end).
RECURSIVE MarkRun(_, _, _, _)
MarkRun(m, c, p, fuel) ==
    IF fuel = 0 THEN [st |-> "hang", mem |-> m]
    ELSE Only({IF r.st # "ok" THEN [st |-> r.st, mem |-> m]
               ELSE IF r.ret THEN [st |-> "ok", mem |-> r.mem]
               ELSE MarkRun(r.mem, r.cur, r.prev, fuel - 1) :
               r \in {MarkIteration(m, c, p)}})

\* for(auto root : mRoots) mark(root), from the i-th root on
RECURSIVE MarkRoots(_, _, _)
MarkRoots(m, roots, i) ==
    IF i > Len(roots) THEN [st |-> "ok", mem |-> m]
    ELSE Only({IF r.st # "ok" THEN r ELSE MarkRoots(r.mem, roots, i + 1) :
               r \in {MarkRun(m, roots[i], 0, 4 * Cardinality(StorageWords(hs)))}})

\* The walk of collectHeapStats(true) after the marking: as StatsWalk, and a
\* used block that is marked is unmarked and counted as live.  acc.mem is the
\* storage as the walk leaves it.
RECURSIVE LiveWalk(_, _, _)
LiveWalk(blk, acc, fuel) ==
    IF blk >= mHeapEnd THEN [acc EXCEPT !.stop = blk]
    ELSE IF ~BlockInStorage(blk) THEN [acc EXCEPT !.st = "ub", !.stop = blk]
    ELSE IF fuel = 0 THEN [acc EXCEPT !.st = "hang", !.stop = blk]
    ELSE LET m == acc.mem
             w == BPtr(acc.mem, blk)
             seen == [acc EXCEPT !.blocks = Append(@, blk)]
         IN  IF FreeBit(w)
             THEN LiveWalk(following(m, blk),
                      [seen EXCEPT !.numFreeBlocks = @ + 1,
                                   !.freeBlockSize = Wrap(@ + BSize(m, blk)),
                                   !.freeSize = Wrap(@ + Align + align(BSize(m, blk)))],
                      fuel - 1)
             ELSE IF ~IsDescriptor(Get(w)) THEN [seen EXCEPT !.st = "ub", !.stop = blk]
             ELSE LET live == MarkBit(w)
                      size == TypeSize(TypeAt(Get(w)))
                  IN  LiveWalk(following(m, blk),
                          [seen EXCEPT !.mem = [m EXCEPT ![blk + WordSize] = SetMark(w, FALSE)],
                                       !.numLiveObjects = IF live THEN @ + 1 ELSE @,
                                       !.liveObjectSize = IF live THEN Wrap(@ + size) ELSE @,
                                       !.numObjects = @ + 1,
                                       !.objectSize = Wrap(@ + size),
                                       !.usedSize = Wrap(@ + Align + align(BSize(m, blk)))],
                          fuel - 1)

\* HeapBase::collectHeapStats(true)
collectLiveStats(m, roots) ==
    Only({IF acc.st # "ok" THEN acc
          ELSE LiveWalk(mHeapStart, acc, Cardinality(StorageWords(hs))) :
          acc \in {[st |-> mk.st, mem |-> mk.mem, heapSize |-> mHeapEnd - mHeapStart,
                    usedSize |-> 0, freeSize |-> 0, numFreeBlocks |-> 0,
                    freeBlockSize |-> 0, numObjects |-> 0, objectSize |-> 0,
                    numLiveObjects |-> 0, liveObjectSize |-> 0, blocks |-> << >>,
                    stop |-> 0] : mk \in {MarkRoots(m, roots, 1)}}})

\* the loop of dump over the free list: for(blk = mFreeList; blk; blk = blk->next())
RECURSIVE PrintFreeList(_, _, _)
PrintFreeList(m, b, fuel) ==
    IF b = 0 THEN "ok"
    ELSE IF ~BlockInStorage(b) THEN "ub"
    ELSE IF fuel = 0 THEN "hang"
    ELSE PrintFreeList(m, Get(BPtr(m, b)), fuel - 1)

\* the walk of dumpLiveObjects: every marked block is unmarked and printed
\* through its type descriptor
RECURSIVE PrintWalk(_, _, _)
PrintWalk(m, blk, fuel) ==
    IF blk >= mHeapEnd THEN [st |-> "ok", mem |-> m]
    ELSE IF ~BlockInStorage(blk) THEN [st |-> "ub", mem |-> m]
    ELSE IF fuel = 0 THEN [st |-> "hang", mem |-> m]
    ELSE LET w == BPtr(m, blk)
         IN  IF ~MarkBit(w) THEN PrintWalk(m, following(m, blk), fuel - 1)
             ELSE IF FreeBit(w) \/ ~IsDescriptor(Get(w)) THEN [st |-> "ub", mem |-> m]
             ELSE PrintWalk([m EXCEPT ![blk + WordSize] = SetMark(w, FALSE)],
                            following(m, blk), fuel - 1)

\* HeapBase::dumpLiveObjects
dumpLiveObjects(m, roots) ==
    Only({IF mk.st # "ok" THEN mk
          ELSE PrintWalk(mk.mem, mHeapStart, Cardinality(StorageWords(hs))) :
          mk \in {MarkRoots(m, roots, 1)}})

\* HeapBase::dump: the statistics, the free list, the live objects
dump(m, fl, roots) ==
    Only({IF s.st # "ok" THEN [st |-> s.st, mem |-> m]
          ELSE LET pr == PrintFreeList(s.mem, fl, Cardinality(StorageWords(hs)))
               IN  IF pr # "ok" THEN [st |-> pr, mem |-> s.mem]
                   ELSE dumpLiveObjects(s.mem, roots) :
          s \in {collectLiveStats(m, roots)}})

\* the public operation dump(os)
Dump ==
    /\ pc = "idle" /\ status = "ok"
    /\ \E r \in {dump(mem, mFreeList, mRoots)} :
           /\ status' = r.st
           /\ mem' = IF r.st = "ok" THEN r.mem ELSE mem
    /\ lastAlloc' = NoAlloc
    /\ ForgetGc
    /\ UNCHANGED <<hs, desc, lastRemove, mFreeList, mRoots, pc, rootIdx, cur, prev, objs,
                   nAllocs, nGcs, nWrites>>

\* collectHeapStats(true) called on its own (it is a protected member)
CollectLiveStats ==
    /\ pc = "idle" /\ status = "ok"
    /\ \E r \in {collectLiveStats(mem, mRoots)} :
           /\ status' = r.st
           /\ mem' = IF r.st = "ok" THEN r.mem ELSE mem
    /\ lastAlloc' = NoAlloc
    /\ ForgetGc
    /\ UNCHANGED <<hs, desc, lastRemove, mFreeList, mRoots, pc, rootIdx, cur, prev, objs,
                   nAllocs, nGcs, nWrites>>

\* The blocks of the free list in list order (dump prints them this way);
\* cut off after fuel blocks when the list is cyclic or leaves the storage.
RECURSIVE FreeChain(_, _, _)
FreeChain(m, b, fuel) ==
    IF b = 0 \/ fuel = 0 \/ ~BlockInStorage(b) THEN << >>
    ELSE <<b>> \o FreeChain(m, Get(BPtr(m, b)), fuel - 1)

FreeBlocks == LET c == FreeChain(mem, mFreeList, Cardinality(StorageWords(hs)))
              IN  {c[i] : i \in 1..Len(c)}

Next ==
    \/ \E t \in Types, r \in BOOLEAN : Allocate(t, r)
    \/ \E p \in DOMAIN objs : Deallocate(p)
    \/ \E p \in DOMAIN objs : RegisterRoot(p)
    \/ \E p \in DOMAIN objs : \E a \in FieldAddrs(p, objs[p]) :
           \E q \in (DOMAIN objs) \cup {0} : WriteField(p, a, q)
    \/ Gc
    \/ MarkStep
    \/ Sweep

Spec == Init /\ [][Next]_vars

SpecOddCapacity == InitOddCapacity /\ [][Next]_vars

\* a client that only allocates and deletes (no collection)
NextChurn ==
    \/ \E t \in Types, r \in BOOLEAN : AllocateUpTo(t, r, MaxChurn)
    \/ \E p \in DOMAIN objs : Deallocate(p)

SpecChurn == Init /\ [][NextChurn]_vars

\* a client that allocates objects and registers and removes roots
NextRoots ==
    \/ \E t \in Types, r \in BOOLEAN : Allocate(t, r)
    \/ \E p \in DOMAIN objs : RegisterRootUpTo(p, MaxRootEntries)
    \/ \E p \in DOMAIN objs : RemoveRoot(p)

SpecRoots == Init /\ [][NextRoots]_vars

\* a client that builds an object graph and looks at the heap in between
NextObserve ==
    \/ \E t \in Types, r \in BOOLEAN : Allocate(t, r)
    \/ \E p \in DOMAIN objs : RegisterRoot(p)
    \/ \E p \in DOMAIN objs : \E a \in FieldAddrs(p, objs[p]) :
           \E q \in (DOMAIN objs) \cup {0} : WriteField(p, a, q)
    \/ Dump
    \/ CollectLiveStats

SpecObserve == Init /\ [][NextObserve]_vars

\* the offsets a client hands to TypeDescriptor::make: offsets of pointer
\* members, in any order
OffsetChoices == {WordSize * i : i \in 0..(MaxOffsets - 1)}
OffsetLists == UNION {[1..k -> OffsetChoices] : k \in 0..MaxOffsets}
\* the addresses operator new returns for descriptors
DescBases == {DescAddr(t) : t \in Types}

\* TypeDescriptor::make<T>(offsets): operator new, then the constructor
Make(base, offsets) ==
    /\ desc' = [made |-> TRUE, base |-> base, offsets |-> offsets,
                cells |-> TypeDescriptor(base, offsets)]
    /\ UNCHANGED <<hs, mem, mFreeList, mRoots, pc, rootIdx, cur, prev, status, objs, gcLive,
                   gcDead, preMem, destroyLog, lastAlloc, trav, lastRemove, nAllocs, nGcs,
                   nWrites>>

\* a client that creates type descriptors
NextDescriptors == \E base \in DescBases : \E offsets \in OffsetLists : Make(base, offsets)

SpecDescriptors == Init /\ [][NextDescriptors]_vars


\* ------------------------------------------------------------ properties
\* gc() has just returned: the records of the collection are still there
AfterGc == pc = "idle" /\ status = "ok" /\ preMem # << >>
Idle == pc = "idle" /\ status = "ok"

\* the bytes [lo, hi) and [lo2, hi2) have a byte in common
Overlap(lo, hi, lo2, hi2) == lo < hi2 /\ lo2 < hi

\* the extent a block header claims: header, then align(mSize) bytes
ExtentEnd(m, b) == b + Align + align(BSize(m, b))

\* the object at payload p (header and type.size bytes of payload) has a byte
\* inside the extent of the free-list block f
InFreeBlock(p, t, f) == Overlap(block(p), p + TypeSize(t), f, ExtentEnd(mem, f))

InLog(p) == \E i \in 1..Len(destroyLog) : destroyLog[i] = p
TimesDestroyed(p) == Cardinality({i \in 1..Len(destroyLog) : destroyLog[i] = p})

\* C1: when gc() has returned, every object that was reachable from a root
\* is a used block with its original TypeDescriptor, was not destroyed, and
\* has no header or payload byte inside a block of the new free list.
C1_LiveObjectsSurvive ==
    AfterGc =>
        \A p \in gcLive :
            /\ UsedBit(BPtr(mem, block(p)))
            /\ Get(BPtr(mem, block(p))) = DescAddr(objs[p])
            /\ ~InLog(p)
            /\ \A f \in FreeBlocks : ~InFreeBlock(p, objs[p], f)


\* C2: DSW restoration.  When gc() has returned, every managed pointer of
\* every object reachable from the roots holds the value it held when gc() was
\* called.
FieldsRestored ==
    \A p \in gcLive : \A a \in FieldAddrs(p, objs[p]) : mem[a] = preMem[a]

C2_FieldsRestored == AfterGc => FieldsRestored

\* gc() has returned from a cycle of two reachable objects
C2_Witness ==
    /\ AfterGc
    /\ \E p \in gcLive : \E q \in gcLive :
          /\ p # q
          /\ \E a \in FieldAddrs(p, objs[p]) : preMem[a] = q
          /\ \E a \in FieldAddrs(q, objs[q]) : preMem[a] = p

\* C3: DSW coverage.  When every root has been marked and the sweep has
\* not started, an object the client owns is marked iff it is reachable.
C3_MarkedIffReachable ==
    (pc = "sweep" /\ status = "ok") =>
        \A p \in DOMAIN objs : MarkBit(BPtr(mem, block(p))) <=> p \in gcLive

\* C4: across one gc(), destroy is called exactly once on every object that
\* was allocated, not deallocated and unreachable, and never on a reachable one.
C4_DestroyedExactlyOnce ==
    AfterGc =>
        /\ \A p \in gcDead : TimesDestroyed(p) = 1
        /\ \A p \in gcLive : TimesDestroyed(p) = 0

\* C5: conservation.  Between public operations the linear walk ends exactly
\* at the arena end and heapSize = usedSize + freeSize.
Conservation ==
    LET s == collectHeapStats(mem)
    IN  /\ s.st = "ok"
        /\ s.stop = mHeapEnd
        /\ s.heapSize = s.usedSize + s.freeSize

C5_Conservation == Idle => Conservation



\* the blocks the client or the allocator knows: the blocks of the client's
\* objects and the members of the free list
KnownBlocks == {block(p) : p \in DOMAIN objs} \cup FreeBlocks

WalkBlocks == LET w == collectHeapStats(mem).blocks IN {w[i] : i \in 1..Len(w)}

\* C6: linear-walk completeness.  Between public operations every block
\* that exists is visited by the walk from the arena start, and no block header
\* lies strictly inside the extent another block claims.
C6_WalkComplete ==
    Idle =>
        /\ KnownBlocks \subseteq WalkBlocks
        /\ \A b1 \in KnownBlocks : \A b2 \in KnownBlocks :
               ~(b1 < b2 /\ b2 < ExtentEnd(mem, b1))

\* C7: mark cleanliness.  Between public operations every block header has
\* mark = 0, the blocks carved out of split residues included.
C7_MarksClear ==
    Idle => \A b \in KnownBlocks \cup WalkBlocks : ~MarkBit(BPtr(mem, b))

\* the free-list blocks whose extent holds the header of the object at p
Covering(p) == {f \in FreeBlocks : f <= block(p) /\ p <= ExtentEnd(mem, f)}

\* C8: free-list soundness after sweep.  When gc() has returned every dead
\* object lies in exactly one free block, no free block holds a byte of a live
\* object, and no two free blocks overlap or are adjacent.
C8_FreeListSound ==
    AfterGc =>
        /\ \A d \in gcDead : Cardinality(Covering(d)) = 1
        /\ \A p \in gcLive : \A f \in FreeBlocks : ~InFreeBlock(p, objs[p], f)
        /\ \A f \in FreeBlocks : \A g \in FreeBlocks :
               f < g => ExtentEnd(mem, f) < g

RECURSIVE LiveBytes(_)
LiveBytes(S) ==
    IF S = {} THEN 0
    ELSE LET p == CHOOSE q \in S : TRUE
         IN  Align + align(TypeSize(objs[p])) + LiveBytes(S \ {p})

\* C9: post-gc accounting.  When gc() has returned the walk finds as many
\* used blocks as there are reachable objects, usedSize is the sum of
\* Align + align(type.size) over them, and freeSize is the rest of the heap.
C9_Accounting ==
    AfterGc =>
        LET s == collectHeapStats(mem)
        IN  /\ s.st = "ok"
            /\ s.numObjects = Cardinality(gcLive)
            /\ s.usedSize = LiveBytes(gcLive)
            /\ s.freeSize = s.heapSize - LiveBytes(gcLive)

\* C10: split threshold.  A chosen free block of payload b is split for a
\* request r iff align(b) - align(r) - Align >= Align over the integers;
\* otherwise no header is written.
C10_SplitThreshold ==
    (lastAlloc.called /\ lastAlloc.chosen # 0) =>
        /\ lastAlloc.split <=>
              align(lastAlloc.b) - align(TypeSize(lastAlloc.type)) - Align >= Align
        /\ ~lastAlloc.split => lastAlloc.newBlock = 0

\* the free list as the sequence of its blocks, before an operation
ChainOf(m, fl) == FreeChain(m, fl, Cardinality(StorageWords(hs)))

\* the positions of the blocks of a chain that can hold need bytes
Fits(m, chain, need) == {i \in 1..Len(chain) : BSize(m, chain[i]) >= need}

\* C11: first-fit.  A successful allocate returns the payload of the first
\* block in free-list order whose usable size is >= type.size, and the blocks
\* before it are still the first blocks of the list afterwards, in the same
\* order and with the same usable size.
C11_FirstFit ==
    [][(Idle /\ lastAlloc'.called /\ lastAlloc'.result # 0 /\ status' = "ok") =>
         LET chain == ChainOf(mem, mFreeList)
             after == ChainOf(mem', mFreeList')
             fit == Fits(mem, chain, TypeSize(lastAlloc'.type))
         IN  /\ fit # {}
             /\ LET k == CHOOSE i \in fit : \A j \in fit : i <= j
                IN  /\ lastAlloc'.result = data(chain[k])
                    /\ Len(after) >= k - 1
                    /\ \A i \in 1..(k - 1) :
                           /\ after[i] = chain[i]
                           /\ BSize(mem', chain[i]) = BSize(mem, chain[i])]_vars

\* C12: out of memory.  When no block of the free list has a usable size
\* >= type.size (the empty list included), allocate returns null and the
\* storage, the free list, the roots and the client's objects are as before,
\* whatever isRoot is.
C12_OutOfMemory ==
    [][(Idle /\ lastAlloc'.called
          /\ Fits(mem, ChainOf(mem, mFreeList), TypeSize(lastAlloc'.type)) = {}) =>
         /\ lastAlloc'.result = 0
         /\ status' = "ok"
         /\ mem' = mem
         /\ mFreeList' = mFreeList
         /\ mRoots' = mRoots
         /\ objs' = objs]_vars

\* how often the marker took the pointer at field address fa forward (kind
\* "advance") or backward (kind "retreat") during the last gc()
Traversals(kind, fa) == Cardinality({i \in 1..Len(trav) : trav[i] = <<kind, fa>>})

RECURSIVE CursorCells(_)
CursorCells(S) ==
    IF S = {} THEN 0
    ELSE LET p == CHOOSE q \in S : TRUE
         IN  Len(TypeOffsets(objs[p])) + 1 + CursorCells(S \ {p})

\* C13: termination.  From the call of gc() on, the marker stays inside
\* defined behaviour, takes every pointer field at most once forward and at
\* most once backward, and runs at most one iteration per offset and per
\* sentinel of the reachable objects, so that mark and gc() return.
C13_MarkTerminates ==
    (preMem # << >>) =>
        /\ status = "ok"
        /\ \A a \in DOMAIN mem :
               Traversals("advance", a) <= 1 /\ Traversals("retreat", a) <= 1
        /\ Len(trav) <= CursorCells(gcLive)

\* gc() is about to call mark(cur): the range-for has picked the next root
\* and no iteration of that mark has run
AtMarkEntry == pc = "mark" /\ (trav = << >> \/ trav[Len(trav)][1] = "return")

\* C14: already-marked roots are skipped.  gc() never calls mark on a root
\* whose block is marked (the assertion at the head of mark holds), stays
\* inside defined behaviour, and when it has returned the header of every
\* reachable root points at the TypeDescriptor of its object.
C14_MarkedRootsSkipped ==
    /\ AtMarkEntry => ~MarkBit(BPtr(mem, block(cur)))
    /\ (preMem # << >>) => status = "ok"
    /\ AfterGc => \A r \in RootSet \cap gcLive :
                      Get(BPtr(mem, block(r))) = DescAddr(objs[r])

\* the positions of p in a sequence of roots
Positions(roots, p) == {i \in 1..Len(roots) : roots[i] = p}

\* after is before with p appended at the end
Appended(before, after, p) ==
    /\ Len(after) = Len(before) + 1
    /\ after[Len(after)] = p
    /\ \A i \in 1..Len(before) : after[i] = before[i]

\* after is before without its entry at position k
Without(before, after, k) ==
    /\ Len(after) = Len(before) - 1
    /\ \A i \in 1..Len(after) : after[i] = IF i < k THEN before[i] ELSE before[i + 1]

C16_FullReclamation ==
    (AfterGc /\ mRoots = << >>) =>
        /\ mFreeList = mHeapStart
        /\ FreeBit(BPtr(mem, mHeapStart))
        /\ Get(BPtr(mem, mHeapStart)) = 0
        /\ BSize(mem, mHeapStart) = (mHeapEnd - mHeapStart) - Align
        /\ ExtentEnd(mem, mHeapStart) = mHeapEnd
        /\ collectHeapStats(mem).blocks = <<mHeapStart>>

\* C17: the frame of deallocate.  deallocate(p) on a used, unmarked block
\* makes the block the head of the free list with the old head as its
\* successor, keeps its usable size, calls no destructor and changes no other
\* word of the storage and no root.
C17_DeallocateFrame ==
    [][\A p \in DOMAIN objs :
          (/\ Deallocate(p)
           /\ UsedBit(BPtr(mem, block(p)))
           /\ ~MarkBit(BPtr(mem, block(p)))) =>
              /\ mFreeList' = block(p)
              /\ FreeBit(BPtr(mem', block(p)))
              /\ ~MarkBit(BPtr(mem', block(p)))
              /\ Get(BPtr(mem', block(p))) = mFreeList
              /\ BSize(mem', block(p)) = BSize(mem, block(p))
              /\ \A a \in DOMAIN mem : a # block(p) + WordSize => mem'[a] = mem[a]
              /\ mRoots' = mRoots
              /\ destroyLog' = << >>]_vars

\* deallocate has just pushed a block in front of a free list that was not empty
C17_Witness ==
    /\ Idle /\ nAllocs > 0 /\ ~lastAlloc.called /\ lastRemove.p = 0 /\ nGcs = 0
    /\ nWrites = 0 /\ mFreeList # 0
    /\ FreeBit(BPtr(mem, mFreeList))
    /\ Get(BPtr(mem, mFreeList)) # 0

\* the heap has been constructed and no operation has been called
Fresh == nAllocs = 0 /\ nGcs = 0 /\ nWrites = 0 /\ lastRemove.p = 0 /\ mRoots = << >>

\* C18: construction.  For every capacity a newly constructed heap is one
\* free block whose extent, header and aligned payload, ends exactly at the
\* arena end, so that heapSize = freeSize and usedSize = 0.
C18_Construction ==
    Fresh =>
        LET s == collectHeapStats(mem)
        IN  /\ mFreeList = mHeapStart
            /\ FreeBit(BPtr(mem, mHeapStart))
            /\ Get(BPtr(mem, mHeapStart)) = 0
            /\ ExtentEnd(mem, mHeapStart) = mHeapEnd
            /\ s.st = "ok"
            /\ s.blocks = <<mHeapStart>>
            /\ s.heapSize = s.freeSize
            /\ s.usedSize = 0

\* what collectHeapStats(true) would report in a state: the counters of
\* HeapStats
Report(m, roots) ==
    LET s == collectLiveStats(m, roots)
    IN  <<s.st, s.heapSize, s.usedSize, s.freeSize, s.numFreeBlocks, s.freeBlockSize,
          s.numObjects, s.objectSize, s.numLiveObjects, s.liveObjectSize>>

\* C19: dump() and collectHeapStats(true) only observe.  Called between
\* public operations they return, leave every word of the storage (headers
\* with their tags, pointer fields), the free list and the roots as before,
\* and a second call reports the same statistics as the first.
C19_ObservationOnly ==
    [][(Dump \/ CollectLiveStats) =>
          /\ status' = "ok"
          /\ mem' = mem
          /\ mFreeList' = mFreeList
          /\ mRoots' = mRoots
          /\ Report(mem', mRoots') = Report(mem, mRoots)]_vars

\* assigning the tag-free pointer p to the word w passes the assertion of
\* operator=, keeps the tags of w and stores p
AssignKeepsTags(w, p) ==
    Tags(p) = 0 =>
        /\ AssignAssert(w, p)
        /\ Tags(Assign(w, p)) = Tags(w)
        /\ Get(Assign(w, p)) = p

\* C20: TaggedPointer assignment keeps the tags of the word and asserts
\* only that the incoming pointer is tag-free: the assignment mPtr = newBlock
\* of split on the free block it splits, and the assignments of mark to the
\* pointer of an unmarked or a marked block, violate no assertion.
C20_AssignPreservesTags ==
    [][/\ (Idle /\ lastAlloc'.called /\ lastAlloc'.split /\ status' = "ok") =>
              AssignKeepsTags(BPtr(mem, lastAlloc'.chosen), lastAlloc'.newBlock)
       /\ (MarkStep /\ status' = "ok") =>
              LET w == BPtr(mem, block(cur))
              IN  AssignKeepsTags(w, IF MarkBit(w) THEN Get(w) + WordSize
                                     ELSE DescBegin(Get(w)))]_vars

\* C21: split result.  When a successful allocate splits the chosen free
\* block of usable size b for a request r, the returned block has usable size
\* align(r) and a new free block of usable size align(b) - align(r) - Align
\* starts at the chosen block's header + Align + align(r) and takes the chosen
\* block's place in the free list; when it does not split, the returned block
\* keeps usable size b.
C21_SplitResult ==
    [][(Idle /\ lastAlloc'.called /\ lastAlloc'.result # 0 /\ status' = "ok") =>
         LET c == lastAlloc'.chosen
             r == TypeSize(lastAlloc'.type)
             b == lastAlloc'.b
             nb == lastAlloc'.newBlock
         IN  IF lastAlloc'.split
             THEN /\ BSize(mem', c) = align(r)
                  /\ nb = c + Align + align(r)
                  /\ BSize(mem', nb) = align(b) - align(r) - Align
                  /\ FreeBit(BPtr(mem', nb))
                  /\ Get(BPtr(mem', nb)) = Get(BPtr(mem, c))
                  /\ IF lastAlloc'.prevBlk = 0 THEN mFreeList' = nb
                     ELSE Get(BPtr(mem', lastAlloc'.prevBlk)) = nb
             ELSE BSize(mem', c) = b]_vars

\* The reversed chain of HeapBase::mark seen from the object c whose
\* predecessor pointer is p: either p is null and c is the root, or p is a
\* marked block whose header cursor stands on a non-negative offset cell, the
\* field at that offset pointed at c when gc() was called, and the field now
\* holds the predecessor of p, from which the chain goes on.
RECURSIVE PathInv(_, _, _, _, _)
PathInv(m, c, p, root, fuel) ==
    IF p = 0 THEN c = root
    ELSE /\ fuel > 0
         /\ BlockInStorage(block(p))
         /\ MarkBit(BPtr(m, block(p)))
         /\ LET cell == Get(BPtr(m, block(p)))
            IN  /\ IsDescCell(cell)
                /\ DescCell(cell) >= 0
                /\ InStorage(p + DescCell(cell))
                /\ preMem[p + DescCell(cell)] = c
                /\ PathInv(m, p, m[p + DescCell(cell)], root, fuel - 1)

\* C22: DSW path invariant.  At the top of every iteration of the marking
\* loop, following the reversed links from prev leads back to the root and
\* ends in null; every block on that chain is marked, its header cursor points
\* at the offset cell of the field currently reversed, and that field holds
\* the address of the block's predecessor on the path (null for the root).
C22_PathInvariant ==
    (pc = "mark" /\ status = "ok") =>
        PathInv(mem, cur, prev, mRoots[rootIdx], Cardinality(StorageWords(hs)))

\* the marker stands two objects below the root: the chain from prev has two blocks
C22_Witness ==
    /\ pc = "mark" /\ status = "ok"
    /\ prev # 0 /\ prev # mRoots[rootIdx]
    /\ PathInv(mem, cur, prev, mRoots[rootIdx], Cardinality(StorageWords(hs)))

\* a call of mark has just returned to gc(): the marks are still set
MarkReturned ==
    /\ pc \in {"mark", "sweep"} /\ status = "ok"
    /\ trav # << >> /\ trav[Len(trav)][1] = "return"

\* the objects of type t whose block is marked
MarkedOf(t) == {p \in DOMAIN objs : objs[p] = t /\ MarkBit(BPtr(mem, block(p)))}

\* C23: header restoration.  When mark(root) returns, the root is marked and
\* the header word of every marked block holds the address of the
\* TypeDescriptor the object was allocated with, mark = 1 kept, whether the
\* descriptor has zero, one or several offsets.
C23_HeaderRestored ==
    MarkReturned =>
        /\ MarkBit(BPtr(mem, block(trav[Len(trav)][2])))
        /\ \A p \in DOMAIN objs :
               MarkBit(BPtr(mem, block(p))) =>
                   /\ Get(BPtr(mem, block(p))) = DescAddr(objs[p])
                   /\ UsedBit(BPtr(mem, block(p)))

\* the last mark has returned from a StudentNode (two offsets) with both of
\* its pointers set, one of them to a Lecture (no offset), both marked
C23_Witness ==
    /\ MarkReturned /\ pc = "sweep"
    /\ MarkedOf("Lecture") # {}
    /\ \E p \in MarkedOf("StudentNode") :
          /\ \A a \in FieldAddrs(p, "StudentNode") : mem[a] # 0
          /\ \E a \in FieldAddrs(p, "StudentNode") : mem[a] \in MarkedOf("Lecture")

\* the free list from mFreeList, cut off when it leaves the storage or repeats
FreeListChain == ChainOf(mem, mFreeList)

\* the blocks with free = 1 the linear walk of collectHeapStats visits
WalkFreeBlocks == {b \in WalkBlocks : FreeBit(BPtr(mem, b))}

\* C24: free-list well-formedness.  Between public operations following
\* next from mFreeList reaches null without leaving the storage and without
\* repeating a block, every member of the chain has free = 1 and lies inside
\* the arena, and the members are exactly the free blocks the linear walk
\* finds, so that numFreeBlocks is the length of the list.
C24_FreeListWellFormed ==
    Idle =>
        LET chain == FreeListChain
            last == IF chain = << >> THEN mFreeList
                    ELSE Get(BPtr(mem, chain[Len(chain)]))
        IN  /\ last = 0
            /\ \A i \in 1..Len(chain) : \A j \in 1..Len(chain) :
                   i # j => chain[i] # chain[j]
            /\ \A i \in 1..Len(chain) :
                   /\ FreeBit(BPtr(mem, chain[i]))
                   /\ mHeapStart <= chain[i] /\ chain[i] < mHeapEnd
            /\ {chain[i] : i \in 1..Len(chain)} = WalkFreeBlocks
            /\ collectHeapStats(mem).numFreeBlocks = Len(chain)

\* C25: minimum free-block size.  Between public operations every free
\* block, on the free list or found by the linear walk, has usable size
\* >= Align and its extent header + Align + align(size) does not pass the arena
\* end; the size handed to the Block constructor by split is >= Align, and so
\* are the sizes next(next, size) has given the blocks of a rebuilt free list.
C25_MinFreeBlockSize ==
    Idle =>
        /\ \A f \in FreeBlocks \cup WalkFreeBlocks :
               /\ BSize(mem, f) >= Align
               /\ ExtentEnd(mem, f) <= mHeapEnd
        /\ (lastAlloc.called /\ lastAlloc.split) =>
               RestSize([a \in {lastAlloc.chosen} |-> lastAlloc.b], lastAlloc.chosen,
                        TypeSize(lastAlloc.type)) >= Align

\* the end of the byte range of the object at payload p: its header, then
\* align(type.size) bytes
ObjectEnd(p) == block(p) + Align + align(TypeSize(objs[p]))

\* C26: no overlapping allocations.  Between public operations the byte
\* range [header, header + Align + align(type.size)) of every object the
\* client owns is disjoint from the range of every other object it owns and
\* from the extent of every block on the free list.
C26_NoOverlap ==
    Idle =>
        \A p \in DOMAIN objs :
            /\ \A q \in DOMAIN objs :
                   q # p => ~Overlap(block(p), ObjectEnd(p), block(q), ObjectEnd(q))
            /\ \A f \in FreeBlocks :
                   ~Overlap(block(p), ObjectEnd(p), f, ExtentEnd(mem, f))

\* C27: sentinel round-trip.  For a TypeDescriptor made with k >= 0
\* non-negative offsets, the k cells from begin() hold the given offsets in
\* order, the cell at end() holds a strictly negative value, and the byte
\* address of end() plus that value is the address of the descriptor; the
\* same holds for the descriptors of the client's types the marker reads.
C27_SentinelRoundTrip ==
    /\ desc.made =>
           LET k == Len(desc.offsets)
               e == DescEndAt(desc.base, k)
           IN  /\ DOMAIN desc.cells = {DescBegin(desc.base) + WordSize * i : i \in 0..k}
               /\ \A i \in 1..k :
                      desc.cells[DescBegin(desc.base) + WordSize * (i - 1)] = desc.offsets[i]
               /\ desc.cells[e] < 0
               /\ e + desc.cells[e] = desc.base
    /\ \A t \in Types :
           /\ \A i \in 1..Len(TypeOffsets(t)) :
                  DescCell(DescBegin(DescAddr(t)) + WordSize * (i - 1)) = TypeOffsets(t)[i]
           /\ DescCell(DescEnd(t)) < 0
           /\ DescEnd(t) + DescCell(DescEnd(t)) = DescAddr(t)

\* a descriptor has been made with several offsets that are not in ascending order
C27_Witness ==
    /\ desc.made
    /\ Len(desc.offsets) >= 2
    /\ desc.offsets[1] > desc.offsets[2]
    /\ desc.cells[DescEndAt(desc.base, Len(desc.offsets))] < 0

====
